---------------------------- MODULE Spec2Model ----------------------------
(***************************************************************************)
(* A model of the logprob crate: the LogProb wrapper (src/src/lib.rs), its *)
(* operators (src/src/math.rs), the pairwise adder and the log-sum-exp     *)
(* reducers (src/src/adding.rs) and softmax (src/src/softmax.rs).          *)
(*                                                                         *)
(* Floats.  The code is generic over T: Float.  A float is modelled as a   *)
(* record [k, s, n, d]:                                                    *)
(*   k = "nan"                      NaN                                    *)
(*   k = "inf",  s = 1 / -1         positive / negative infinity           *)
(*   k = "zero", s = 1 / -1         +0.0 / -0.0                            *)
(*   k = "fin",  s, n, d            the non-zero number s*n/d (a value in  *)
(*                                  linear space: a probability, an exp)   *)
(*   k = "ln",   n, d  (n # d)      the non-zero number ln(n/d) (a value   *)
(*                                  in log space: negative iff n < d)      *)
(* with n/d in lowest terms.  exp maps log space to linear space and ln    *)
(* and ln_1p map linear space to log space, so every expression of the     *)
(* crate is evaluated exactly; the special values follow IEEE 754.  The    *)
(* rounding of finite results is not modelled.                             *)
(***************************************************************************)
EXTENDS Integers, Sequences, FiniteSets, TLC

\* ------------------------------------------------------------ bounds
\* Largest numerator or denominator a stored value may have.
MaxDen == 8
\* Largest unsigned integer a LogProb is multiplied by.
MaxMul == 3
\* Longest sequence handed to a reducer or to softmax.
MaxLen == 3

\* ------------------------------------------------------------ floats
RECURSIVE Gcd(_, _)
Gcd(m, n) == IF n = 0 THEN m ELSE Gcd(n, m % n)

NaN == [k |-> "nan", s |-> 1, n |-> 0, d |-> 1]
Inf(sg) == [k |-> "inf", s |-> sg, n |-> 0, d |-> 1]
INFINITY == Inf(1)
Zero(sg) == [k |-> "zero", s |-> sg, n |-> 0, d |-> 1]

\* The linear-space number sg*m/e (m, e > 0), in lowest terms.
Fin(sg, m, e) == [k |-> "fin", s |-> sg, n |-> m \div Gcd(m, e), d |-> e \div Gcd(m, e)]

\* The log-space number ln(m/e) (m, e > 0); ln(1) is +0.0.
Ln(m, e) ==
    IF m = e THEN Zero(1)
    ELSE [k |-> "ln", s |-> 1, n |-> m \div Gcd(m, e), d |-> e \div Gcd(m, e)]

\* Ln2 for f32 / f64
LN_2 == Ln(2, 1)
ZERO == Zero(1)
NEG_INFINITY == Inf(-1)

is_nan(x) == x.k = "nan"
is_zero(x) == x.k = "zero"
is_infinite(x) == x.k = "inf"

\* The sign bit is clear (Float::is_sign_positive; NaN is never tested).
is_sign_positive(x) ==
    CASE x.k = "ln" -> x.n > x.d
      [] OTHER -> x.s = 1

\* x < y on log-space floats as IEEE 754 orders them: false when either is
\* NaN, and the two zeros are equal.
Rank(x) == CASE x.k = "inf" -> 2 * x.s
             [] x.k = "zero" -> 0
             [] x.k = "ln" -> IF x.n < x.d THEN -1 ELSE 1

FLt(x, y) ==
    /\ ~is_nan(x)
    /\ ~is_nan(y)
    /\ \/ Rank(x) < Rank(y)
       \/ /\ Rank(x) = Rank(y)
          /\ x.k = "ln"
          /\ x.n * y.d < y.n * x.d

FGt(x, y) == FLt(y, x)

\* x == y on floats (PartialEq): NaN equals nothing, -0.0 equals +0.0.
FEq(x, y) == ~is_nan(x) /\ ~is_nan(y) /\ ~FLt(x, y) /\ ~FLt(y, x)

\* partial_cmp(x, y): None exactly when either is NaN.
partial_cmp(x, y) ==
    IF is_nan(x) \/ is_nan(y) THEN "None"
    ELSE IF FLt(x, y) THEN "Less"
    ELSE IF FLt(y, x) THEN "Greater"
    ELSE "Equal"

\* -x
FNeg(x) ==
    CASE x.k = "nan" -> NaN
      [] x.k = "inf" -> Inf(-x.s)
      [] x.k = "zero" -> Zero(-x.s)
      [] x.k = "fin" -> [x EXCEPT !.s = -x.s]
      [] x.k = "ln" -> Ln(x.d, x.n)

\* x + y on log-space floats: ln a + ln b = ln(ab).
FAdd(x, y) ==
    CASE is_nan(x) \/ is_nan(y) -> NaN
      [] x.k = "inf" /\ y.k = "inf" -> IF x.s = y.s THEN x ELSE NaN
      [] x.k = "inf" -> x
      [] y.k = "inf" -> y
      [] x.k = "zero" /\ y.k = "zero" -> IF x.s = -1 /\ y.s = -1 THEN Zero(-1) ELSE Zero(1)
      [] x.k = "zero" -> y
      [] y.k = "zero" -> x
      [] OTHER -> Ln(x.n * y.n, x.d * y.d)

\* x - y
FSub(x, y) == FAdd(x, FNeg(y))

\* x + y on linear-space floats that are not negative (sums of exponentials).
LinAdd(x, y) ==
    CASE is_nan(x) \/ is_nan(y) -> NaN
      [] x.k = "inf" \/ y.k = "inf" -> INFINITY
      [] x.k = "zero" /\ y.k = "zero" -> IF x.s = -1 /\ y.s = -1 THEN Zero(-1) ELSE Zero(1)
      [] x.k = "zero" -> y
      [] y.k = "zero" -> x
      [] OTHER -> Fin(1, x.n * y.d + y.n * x.d, x.d * y.d)

\* x.exp(): log space to linear space.
FExp(x) ==
    CASE x.k = "nan" -> NaN
      [] x.k = "inf" -> IF x.s = 1 THEN INFINITY ELSE Zero(1)
      [] x.k = "zero" -> Fin(1, 1, 1)
      [] x.k = "ln" -> Fin(1, x.n, x.d)

\* x.ln(): linear space to log space.
FLn(x) ==
    CASE x.k = "nan" -> NaN
      [] x.k = "inf" -> IF x.s = 1 THEN INFINITY ELSE NaN
      [] x.k = "zero" -> NEG_INFINITY
      [] x.k = "fin" -> IF x.s = 1 THEN Ln(x.n, x.d) ELSE NaN

\* x.ln_1p() = ln(1 + x): linear space to log space.
FLn1p(x) ==
    CASE x.k = "nan" -> NaN
      [] x.k = "inf" -> IF x.s = 1 THEN INFINITY ELSE NaN
      [] x.k = "zero" -> Zero(x.s)
      [] x.k = "fin" ->
            IF x.s = 1 THEN Ln(x.d + x.n, x.d)
            ELSE IF x.n > x.d THEN NaN
            ELSE IF x.n = x.d THEN NEG_INFINITY
            ELSE Ln(x.d - x.n, x.d)

RECURSIVE Pow(_, _)
Pow(b, e) == IF e = 0 THEN 1 ELSE b * Pow(b, e - 1)

\* s * x for the float s an unsigned integer converts to: a count c >= 0, or
\* c = -1 for positive infinity (u128::MAX as f32).
FMulCount(c, x) ==
    CASE is_nan(x) -> NaN
      [] c = -1 -> IF x.k = "zero" THEN NaN
                   ELSE IF is_sign_positive(x) THEN INFINITY ELSE NEG_INFINITY
      [] c = 0 -> IF x.k = "inf" THEN NaN
                  ELSE IF is_sign_positive(x) THEN Zero(1) ELSE Zero(-1)
      [] x.k = "inf" \/ x.k = "zero" -> x
      [] OTHER -> Ln(Pow(x.n, c), Pow(x.d, c))


\* ------------------------------------------------------------ LogProb (lib.rs, math.rs)
\* A LogProb<T> is the float it wraps (repr(transparent)).  A Result is
\* [ok, val, err]: Ok(val), or Err(err) with val unused.
Ok(v) == [ok |-> TRUE, val |-> v, err |-> ""]
Err(e) == [ok |-> FALSE, val |-> NaN, err |-> e]

\* A faulty variant of new: the zero test is dropped, so +0.0 is rejected.
new_rejects_zero(val) ==
    IF is_nan(val) \/ is_sign_positive(val) THEN Err("FloatIsNanOrPositive") ELSE Ok(val)

\* LogProb::new
new(val) ==
    IF is_nan(val) \/ (~is_zero(val) /\ is_sign_positive(val))
    THEN Err("FloatIsNanOrPositive")
    ELSE Ok(val)

\* TryFrom<f32> / TryFrom<f64> for LogProb
try_from(value) == new(value)

\* A faulty variant of from_raw_prob: the logarithm is not validated.
from_raw_prob_unchecked(val) == Ok(FLn(val))

\* LogProb::from_raw_prob
from_raw_prob(val) ==
    LET v == FLn(val)
    IN  IF is_nan(v) \/ (~is_zero(v) /\ is_sign_positive(v))
        THEN Err("FloatIsNanOrPositive")
        ELSE Ok(v)

\* LogProb::default (derived): wraps T::default() = 0.0
default == ZERO

\* LogProb::opposite_prob
opposite_prob(self) == FLn1p(FNeg(FExp(self)))

\* A faulty variant of add: the difference of the two log values.
add_difference(self, other) == FSub(self, other)

\* Add for LogProb (all four value / reference combinations)
add(self, other) == FAdd(self, other)

\* AddAssign for LogProb: the new value of the receiver
add_assign(self, other) == FAdd(self, other)

\* Mul<unsigned> for LogProb and Mul<LogProb> for unsigned (impl_mul,
\* impl_mul_lossy): the integer is converted to the float s, then s * self.0.
mul(self, c) == FMulCount(c, self)

\* ------------------------------------------------------------ pairwise adder (adding.rs)
\* A faulty variant of add_log_prob_internal: ln is taken where ln_1p is meant.
add_log_prob_internal_ln(x, y) ==
    IF FGt(x, y) THEN FAdd(x, FLn(FExp(FSub(y, x))))
    ELSE IF FLt(x, y) THEN FAdd(y, FLn(FExp(FSub(x, y))))
    ELSE FAdd(x, LN_2)

\* A faulty variant of add_log_prob_internal: the branch for x < y is missing.
add_log_prob_internal_one_branch(x, y) ==
    IF FGt(x, y) THEN FAdd(x, FLn1p(FExp(FSub(y, x))))
    ELSE FAdd(x, LN_2)

\* A faulty variant of add_log_prob_internal: the operands are not ordered first.
add_log_prob_internal_unordered(x, y) == FAdd(x, FLn1p(FExp(FSub(y, x))))

\* LogProb::add_log_prob_internal
add_log_prob_internal(x, y) ==
    IF FGt(x, y) THEN FAdd(x, FLn1p(FExp(FSub(y, x))))
    ELSE IF FLt(x, y) THEN FAdd(y, FLn1p(FExp(FSub(x, y))))
    ELSE FAdd(x, LN_2)

\* The argument add_log_prob_internal passes to exp, if it calls exp at all.
add_log_prob_internal_exp(x, y) ==
    IF FGt(x, y) THEN [called |-> TRUE, arg |-> FSub(y, x)]
    ELSE IF FLt(x, y) THEN [called |-> TRUE, arg |-> FSub(x, y)]
    ELSE [called |-> FALSE, arg |-> NaN]

\* From<FloatIsNanOrPositive> for ProbabilitiesSumToGreaterThanOne, applied by `?`
Question(r) == IF r.ok THEN r ELSE Err("ProbabilitiesSumToGreaterThanOne")

\* LogProb::add_log_prob
add_log_prob(self, y) == Question(new(add_log_prob_internal(self, y)))

\* LogProb::add_log_prob_clamped
add_log_prob_clamped(self, y) ==
    LET r == add_log_prob(self, y)
    IN  IF r.ok THEN r.val ELSE ZERO

\* LogProb::add_log_prob_float
add_log_prob_float(self, y) == add_log_prob_internal(self, y)

\* ------------------------------------------------------------ reducers (adding.rs)
\* Ord::cmp for LogProb: partial_cmp(..).unwrap(), which panics on None.
cmp(x, y) == IF partial_cmp(x, y) = "None" THEN "panic" ELSE partial_cmp(x, y)

\* val.iter().max(): the last of the greatest elements, by Ord::cmp.  The
\* result is [some, val, panic].
RECURSIVE MaxFrom(_, _, _)
MaxFrom(val, i, m) ==
    IF i > Len(val) THEN [some |-> TRUE, val |-> m, panic |-> FALSE]
    ELSE IF cmp(m, val[i]) = "panic" THEN [some |-> FALSE, val |-> m, panic |-> TRUE]
    ELSE IF cmp(m, val[i]) = "Greater" THEN MaxFrom(val, i + 1, m)
    ELSE MaxFrom(val, i + 1, val[i])

IterMax(val) ==
    IF Len(val) = 0 THEN [some |-> FALSE, val |-> NaN, panic |-> FALSE]
    ELSE MaxFrom(val, 2, val[1])

\* .map(|x| (x - max).exp()).sum::<T>(): the sum of the first i terms.  The
\* sum starts from a zero; its sign never reaches a result, since the ln of
\* either zero is negative infinity.
RECURSIVE SumExp(_, _, _)
SumExp(val, max, i) ==
    IF i = 0 THEN Zero(1)
    ELSE LinAdd(SumExp(val, max, i - 1), FExp(FSub(val[i], max)))

\* log_sum_exp_inner
log_sum_exp_inner(val, max) == FAdd(FLn(SumExp(val, max, Len(val))), max)

\* The running maximum of log_sum_exp_allocate_inner after i items.
RECURSIVE RunningMax(_, _)
RunningMax(items, i) ==
    IF i = 0 THEN NEG_INFINITY
    ELSE IF FGt(items[i], RunningMax(items, i - 1)) THEN items[i]
    ELSE RunningMax(items, i - 1)

\* log_sum_exp_allocate_inner
log_sum_exp_allocate_inner(items) ==
    log_sum_exp_inner(items, RunningMax(items, Len(items)))

Panic == Err("panic")

\* log_sum_exp (slice)
log_sum_exp(val) ==
    LET m == IterMax(val)
    IN  IF m.panic THEN Panic
        ELSE IF m.some THEN Question(new(log_sum_exp_inner(val, m.val)))
        ELSE Ok(NEG_INFINITY)

\* log_sum_exp_clamped (slice)
log_sum_exp_clamped(val) ==
    LET m == IterMax(val)
    IN  IF m.panic THEN Panic
        ELSE IF m.some
             THEN LET r == new(log_sum_exp_inner(val, m.val))
                  IN  IF r.ok THEN r ELSE Ok(ZERO)
        ELSE Ok(NEG_INFINITY)

\* log_sum_exp_float (slice)
log_sum_exp_float(val) ==
    LET m == IterMax(val)
    IN  IF m.panic THEN Panic
        ELSE IF m.some THEN Ok(log_sum_exp_inner(val, m.val))
        ELSE Ok(NEG_INFINITY)

\* A faulty variant of try_fold: after an error it drains the iterator.
RECURSIVE try_fold_drain(_, _, _)
try_fold_drain(acc, items, i) ==
    IF i > Len(items) THEN [r |-> Ok(acc), pulled |-> Len(items)]
    ELSE LET r == add_log_prob(items[i], acc)
         IN  IF r.ok THEN try_fold_drain(r.val, items, i + 1)
             ELSE [r |-> r, pulled |-> Len(items)]

\* self.try_fold(acc, |acc, x| x.add_log_prob(acc)) from item i on: the
\* Result and the number of items pulled from the iterator when it returns.
RECURSIVE try_fold(_, _, _)
try_fold(acc, items, i) ==
    IF i > Len(items) THEN [r |-> Ok(acc), pulled |-> Len(items)]
    ELSE LET r == add_log_prob(items[i], acc)
         IN  IF r.ok THEN try_fold(r.val, items, i + 1)
             ELSE [r |-> r, pulled |-> i]

\* A faulty variant of fold: it stops at the first positive accumulator.
RECURSIVE fold_until_positive(_, _, _)
fold_until_positive(acc, items, i) ==
    IF i > Len(items) \/ FGt(acc, ZERO) THEN acc
    ELSE fold_until_positive(add_log_prob_internal(items[i], acc), items, i + 1)

\* self.fold(first, |acc, x| add_log_prob_internal(x.0, acc)) from item i on.
RECURSIVE fold(_, _, _)
fold(acc, items, i) ==
    IF i > Len(items) THEN acc
    ELSE fold(add_log_prob_internal(items[i], acc), items, i + 1)

\* A faulty variant of log_sum_exp_no_alloc: an empty iterator gives ln 1.
log_sum_exp_no_alloc_empty_one(items) ==
    IF Len(items) > 0 THEN try_fold(items[1], items, 2)
    ELSE [r |-> Ok(ZERO), pulled |-> 0]

\* LogSumExp::log_sum_exp_no_alloc
log_sum_exp_no_alloc(items) ==
    IF Len(items) > 0 THEN try_fold(items[1], items, 2)
    ELSE [r |-> Ok(NEG_INFINITY), pulled |-> 0]

\* LogSumExp::log_sum_exp_clamped_no_alloc
log_sum_exp_clamped_no_alloc(items) ==
    IF Len(items) > 0
    THEN LET f == try_fold(items[1], items, 2)
         IN  IF f.r.ok THEN f ELSE [r |-> Ok(ZERO), pulled |-> f.pulled]
    ELSE [r |-> Ok(NEG_INFINITY), pulled |-> 0]

\* LogSumExp::log_sum_exp_float_no_alloc
log_sum_exp_float_no_alloc(items) ==
    IF Len(items) > 0 THEN fold(items[1], items, 2)
    ELSE NEG_INFINITY

\* LogSumExp::log_sum_exp
it_log_sum_exp(items) == Question(new(log_sum_exp_allocate_inner(items)))

\* LogSumExp::log_sum_exp_clamped
it_log_sum_exp_clamped(items) ==
    LET r == new(log_sum_exp_allocate_inner(items))
    IN  IF r.ok THEN r.val ELSE ZERO

\* LogSumExp::log_sum_exp_float
it_log_sum_exp_float(items) == log_sum_exp_allocate_inner(items)

\* ------------------------------------------------------------ softmax (softmax.rs)
\* The test softmax applies to each element.
Rejected(x) == is_nan(x) \/ (is_infinite(x) /\ is_sign_positive(x))

\* A faulty variant of Validate: an element is rejected only in the first place.
ValidateFirstOnly(val, i) ==
    IF Len(val) > 0 /\ Rejected(val[1]) THEN [ok |-> FALSE, visited |-> 1]
    ELSE [ok |-> TRUE, visited |-> Len(val)]

\* .collect::<Result<Vec<_>, _>>()?: the number of elements visited, which
\* stops at the first one rejected, and whether one was.
RECURSIVE Validate(_, _)
Validate(val, i) ==
    IF i > Len(val) THEN [ok |-> TRUE, visited |-> Len(val)]
    ELSE IF Rejected(val[i]) THEN [ok |-> FALSE, visited |-> i]
    ELSE Validate(val, i + 1)

\* The state of a softmax call: st is "idle" before the call, "err" when it
\* returned Err, "iter" while the iterator it returned has items left, "done"
\* when the iterator is exhausted and "panic" when a step panicked; max and
\* s are the two values the call computes (maxDone, sumDone: whether it did),
\* pos the number of items taken from the iterator, out the items it gave.
Idle ==
    [st |-> "idle", visited |-> 0, maxDone |-> FALSE, sumDone |-> FALSE,
     max |-> NaN, s |-> NaN, pos |-> 0, out |-> <<>>]

\* softmax(val), up to the return of the iterator
softmax(val) ==
    LET c == Validate(val, 1)
        m == IterMax(val)
        max == IF m.some THEN m.val ELSE ZERO
        s == FLn(SumExp(val, max, Len(val)))
    IN  IF ~c.ok THEN [Idle EXCEPT !.st = "err", !.visited = c.visited]
        ELSE IF m.panic
             THEN [Idle EXCEPT !.st = "panic", !.visited = c.visited]
        ELSE [st |-> IF Len(val) = 0 THEN "done" ELSE "iter",
              visited |-> c.visited, maxDone |-> TRUE, sumDone |-> TRUE,
              max |-> max, s |-> s, pos |-> 0, out |-> <<>>]

\* One item of the iterator: LogProb::new(x - s - max).unwrap()
softmax_item(x, s, max) == new(FSub(FSub(x, s), max))

\* ------------------------------------------------------------ state
VARIABLES
    a,      \* a LogProb the caller holds: the receiver (self) of the calls
    b,      \* a second LogProb the caller holds: the other operand
    ret,    \* the last call and what it returned
    prev,   \* the call made just before ret on the same operands, if any
    seq,    \* the slice, or the items of the iterator, handed to the reducers
    inp,    \* the slice of floats handed to softmax
    sm      \* the softmax call: its outcome and the iterator it returned

vars == <<a, b, ret, prev, seq, inp, sm>>

\* A call: its name, its float argument (constructors), its integer argument
\* (multiplication), its Result, and whether the value returned is a LogProb
\* (lp) or a bare float or boolean.
Call(op, arg, cnt, r, lp) ==
    [op |-> op, arg |-> arg, cnt |-> cnt, ok |-> r.ok, val |-> r.val, err |-> r.err, lp |-> lp]

NoCall == Call("none", NaN, 0, Err(""), FALSE)

\* The strict entry points on values, whose result the clamped one is
\* compared with: of the calls on a and b only these are remembered in prev
\* (every call on seq is).
StrictOps == {"add_log_prob"}

\* The pairwise additions, whose result the same addition with the operands
\* exchanged is compared with; they too are remembered in prev.
PairOps == {"add_log_prob", "add_log_prob_clamped", "add_log_prob_float"}

Keep(r) == IF r.op \in StrictOps \cup PairOps THEN r ELSE NoCall

\* Floats handed to LogProb::new and try_from.
RawLogs ==
    {NaN, INFINITY, NEG_INFINITY, Zero(1), Zero(-1),
     Ln(1, 2), Ln(1, 4), Ln(3, 4), Ln(2, 1), Ln(3, 2)}

\* Floats handed to LogProb::from_raw_prob.
RawProbs ==
    {NaN, INFINITY, Inf(-1), Zero(1), Zero(-1),
     Fin(1, 1, 4), Fin(1, 1, 2), Fin(1, 3, 4), Fin(1, 1, 1),
     Fin(1, 3, 2), Fin(1, 2, 1), Fin(-1, 1, 2)}

\* A value the caller can keep (the bound on the stored fractions).
Bounded(v) == v.n <= MaxDen /\ v.d <= MaxDen

Init ==
    /\ a = default
    /\ b = default
    /\ ret = NoCall
    /\ prev = NoCall
    /\ seq = <<>>
    /\ inp = <<>>
    /\ sm = Idle

\* ------------------------------------------------------------ calls on values
New(v) ==
    /\ ret' = Call("new", v, 0, new(v), TRUE)
    /\ prev' = Keep(ret)
    /\ UNCHANGED <<a, b, seq, inp, sm>>

TryFrom(v) ==
    /\ ret' = Call("try_from", v, 0, try_from(v), TRUE)
    /\ prev' = Keep(ret)
    /\ UNCHANGED <<a, b, seq, inp, sm>>

FromRawProb(p) ==
    /\ ret' = Call("from_raw_prob", p, 0, from_raw_prob(p), TRUE)
    /\ prev' = Keep(ret)
    /\ UNCHANGED <<a, b, seq, inp, sm>>

Default ==
    /\ ret' = Call("default", NaN, 0, Ok(default), TRUE)
    /\ prev' = Keep(ret)
    /\ UNCHANGED <<a, b, seq, inp, sm>>

\* a == b (derived PartialEq): 1 for true, 0 for false, in cnt.
Eq ==
    /\ ret' = Call("eq", NaN, IF FEq(a, b) THEN 1 ELSE 0, Ok(NaN), FALSE)
    /\ prev' = Keep(ret)
    /\ UNCHANGED <<a, b, seq, inp, sm>>

\* a + b
Add ==
    /\ ret' = Call("add", NaN, 0, Ok(add(a, b)), TRUE)
    /\ prev' = Keep(ret)
    /\ UNCHANGED <<a, b, seq, inp, sm>>

\* a += b
AddAssign ==
    /\ Bounded(add_assign(a, b))
    /\ a' = add_assign(a, b)
    /\ ret' = Call("add_assign", a, 0, Ok(a'), TRUE)
    /\ prev' = NoCall
    /\ UNCHANGED <<b, seq, inp, sm>>

\* a + &b
AddValRef ==
    /\ ret' = Call("add_val_ref", NaN, 0, Ok(add(a, b)), TRUE)
    /\ prev' = Keep(ret)
    /\ UNCHANGED <<a, b, seq, inp, sm>>

\* &a + b
AddRefVal ==
    /\ ret' = Call("add_ref_val", NaN, 0, Ok(add(a, b)), TRUE)
    /\ prev' = Keep(ret)
    /\ UNCHANGED <<a, b, seq, inp, sm>>

\* &a + &b
AddRefRef ==
    /\ ret' = Call("add_ref_ref", NaN, 0, Ok(add(a, b)), TRUE)
    /\ prev' = Keep(ret)
    /\ UNCHANGED <<a, b, seq, inp, sm>>

\* a += &b
AddAssignRef ==
    /\ Bounded(add_assign(a, b))
    /\ a' = add_assign(a, b)
    /\ ret' = Call("add_assign_ref", a, 0, Ok(a'), TRUE)
    /\ prev' = NoCall
    /\ UNCHANGED <<b, seq, inp, sm>>

\* a * c and c * a for an unsigned integer c converted exactly (impl_mul)
Mul(c) ==
    /\ ret' = Call("mul", NaN, c, Ok(mul(a, c)), TRUE)
    /\ prev' = Keep(ret)
    /\ UNCHANGED <<a, b, seq, inp, sm>>

\* a * c and c * a for an unsigned integer c converted with `as`
\* (impl_mul_lossy); c = -1 stands for u128::MAX, which is infinite as f32.
MulLossy(c) ==
    /\ ret' = Call("mul_lossy", NaN, c, Ok(mul(a, c)), TRUE)
    /\ prev' = Keep(ret)
    /\ UNCHANGED <<a, b, seq, inp, sm>>

OppositeProb ==
    /\ ret' = Call("opposite_prob", NaN, 0, Ok(opposite_prob(a)), TRUE)
    /\ prev' = Keep(ret)
    /\ UNCHANGED <<a, b, seq, inp, sm>>

AddLogProb ==
    /\ ret' = Call("add_log_prob", NaN, 0, add_log_prob(a, b), TRUE)
    /\ prev' = Keep(ret)
    /\ UNCHANGED <<a, b, seq, inp, sm>>

AddLogProbClamped ==
    /\ ret' = Call("add_log_prob_clamped", NaN, 0, Ok(add_log_prob_clamped(a, b)), TRUE)
    /\ prev' = Keep(ret)
    /\ UNCHANGED <<a, b, seq, inp, sm>>

\* a.add_log_prob_float(b); arg and cnt record the argument of exp and
\* whether exp is called.
AddLogProbFloat ==
    /\ ret' = Call("add_log_prob_float", add_log_prob_internal_exp(a, b).arg,
                   IF add_log_prob_internal_exp(a, b).called THEN 1 ELSE 0,
                   Ok(add_log_prob_float(a, b)), FALSE)
    /\ prev' = Keep(ret)
    /\ UNCHANGED <<a, b, seq, inp, sm>>

\* b.add_log_prob(a)
AddLogProbExchanged ==
    /\ ret' = Call("add_log_prob_exchanged", NaN, 0, add_log_prob(b, a), TRUE)
    /\ prev' = Keep(ret)
    /\ UNCHANGED <<a, b, seq, inp, sm>>

\* b.add_log_prob_clamped(a)
AddLogProbClampedExchanged ==
    /\ ret' = Call("add_log_prob_clamped_exchanged", NaN, 0, Ok(add_log_prob_clamped(b, a)), TRUE)
    /\ prev' = Keep(ret)
    /\ UNCHANGED <<a, b, seq, inp, sm>>

\* b.add_log_prob_float(a)
AddLogProbFloatExchanged ==
    /\ ret' = Call("add_log_prob_float_exchanged", NaN, 0, Ok(add_log_prob_float(b, a)), FALSE)
    /\ prev' = Keep(ret)
    /\ UNCHANGED <<a, b, seq, inp, sm>>

\* a.cmp(&b) (Ord): Less, Equal or Greater as -1, 0, 1 in cnt, or a panic.
Cmp ==
    /\ ret' = Call("cmp", NaN,
                   IF cmp(a, b) = "Less" THEN -1 ELSE IF cmp(a, b) = "Greater" THEN 1 ELSE 0,
                   IF cmp(a, b) = "panic" THEN Panic ELSE Ok(NaN), FALSE)
    /\ prev' = Keep(ret)
    /\ UNCHANGED <<a, b, seq, inp, sm>>

\* log_sum_exp(&[a, b]): the slice reducer on the two values at hand.
LogSumExpOfPair ==
    /\ ret' = Call("log_sum_exp_of_pair", NaN, 2, log_sum_exp(<<a, b>>), TRUE)
    /\ prev' = Keep(ret)
    /\ UNCHANGED <<a, b, seq, inp, sm>>

\* let a = <the LogProb just returned>
MoveA ==
    /\ ret.ok /\ ret.lp /\ Bounded(ret.val)
    /\ a' = ret.val
    /\ ret' = NoCall
    /\ prev' = NoCall
    /\ UNCHANGED <<b, seq, inp, sm>>

\* let b = <the LogProb just returned>
MoveB ==
    /\ ret.ok /\ ret.lp /\ Bounded(ret.val)
    /\ b' = ret.val
    /\ ret' = NoCall
    /\ prev' = NoCall
    /\ UNCHANGED <<a, seq, inp, sm>>

Next ==
    \/ \E v \in RawLogs : New(v)
    \/ \E v \in RawLogs : TryFrom(v)
    \/ \E p \in RawProbs : FromRawProb(p)
    \/ Default
    \/ Eq
    \/ Add
    \/ AddAssign
    \/ AddValRef
    \/ AddRefVal
    \/ AddRefRef
    \/ AddAssignRef
    \/ \E c \in 0..MaxMul : Mul(c)
    \/ \E c \in -1..MaxMul : MulLossy(c)
    \/ OppositeProb
    \/ AddLogProb
    \/ AddLogProbClamped
    \/ AddLogProbFloat
    \/ AddLogProbExchanged
    \/ AddLogProbClampedExchanged
    \/ AddLogProbFloatExchanged
    \/ Cmp
    \/ LogSumExpOfPair
    \/ MoveA
    \/ MoveB

Spec == Init /\ [][Next]_vars

\* ------------------------------------------------------------ properties of values
\* The type invariant of LogProb: not NaN, and negative or a zero.
Valid(x) == ~is_nan(x) /\ (is_zero(x) \/ ~is_sign_positive(x))

\* The probability exp(x) of a float x that is not NaN, as <<numerator, denominator>>.
Prob(x) ==
    CASE x.k = "inf" -> IF x.s = 1 THEN <<1, 0>> ELSE <<0, 1>>
      [] x.k = "zero" -> <<1, 1>>
      [] x.k = "ln" -> <<x.n, x.d>>

\* x is ln(m/e), for m >= 0 and e > 0.
IsLnOf(x, m, e) == ~is_nan(x) /\ x # INFINITY /\ Prob(x)[1] * e = m * Prob(x)[2]

\* C1: every LogProb that exists (the two the caller holds and the one just
\* returned) wraps a float that is not NaN and is negative or a zero.
C1_TypeInvariant ==
    /\ Valid(a)
    /\ Valid(b)
    /\ (ret.ok /\ ret.lp) => Valid(ret.val)

\* NaN, a positive finite float or positive infinity.
NanOrPositive(v) == is_nan(v) \/ v = INFINITY \/ (v.k = "ln" /\ v.n > v.d)

\* C2: new and try_from return Err(FloatIsNanOrPositive) exactly for NaN, a
\* positive finite float and positive infinity, and otherwise Ok wrapping the
\* float unchanged (the sign of a zero included); +0.0 and -0.0 wrapped
\* compare equal.
C2_NewContract ==
    /\ ret.op \in {"new", "try_from"} =>
          /\ ret.ok <=> ~NanOrPositive(ret.arg)
          /\ ret.ok => ret.val = ret.arg
          /\ ~ret.ok => ret.err = "FloatIsNanOrPositive"
    /\ (ret.op = "eq" /\ is_zero(a) /\ is_zero(b)) => ret.cnt = 1

C2_Witness == ret.op = "eq" /\ a = Zero(-1) /\ b = Zero(1) /\ ret.cnt = 1

\* p lies in [0, 1].
InUnit(p) == is_zero(p) \/ (p.k = "fin" /\ p.s = 1 /\ p.n <= p.d)

\* C3: from_raw_prob(p) returns Ok exactly when p lies in [0, 1] and then
\* wraps ln(p), a valid log-probability (negative infinity for 0, zero for
\* 1); otherwise it returns Err(FloatIsNanOrPositive).
C3_FromRawProbContract ==
    ret.op = "from_raw_prob" =>
        /\ ret.ok <=> InUnit(ret.arg)
        /\ ret.ok =>
              /\ Valid(ret.val)
              /\ is_zero(ret.arg) => ret.val = NEG_INFINITY
              /\ ~is_zero(ret.arg) => IsLnOf(ret.val, ret.arg.n, ret.arg.d)
        /\ ~ret.ok => ret.err = "FloatIsNanOrPositive"

C3_Witness ==
    /\ ret.op = "from_raw_prob" /\ ret.arg = Fin(1, 3, 4)
    /\ ret.ok /\ ret.val = Ln(3, 4)

\* The sum p + q of the probabilities of a and b, as a fraction.
SumNum == Prob(a)[1] * Prob(b)[2] + Prob(b)[1] * Prob(a)[2]
SumDen == Prob(a)[2] * Prob(b)[2]

\* C4: for valid a = ln p and b = ln q, add_log_prob returns Ok(ln(p+q)) when
\* p+q <= 1 and Err(ProbabilitiesSumToGreaterThanOne) when p+q > 1; in the
\* error case add_log_prob_clamped returns 0 and add_log_prob_float returns
\* ln(p+q), which is positive.
C4_PairwiseAddition ==
    (Valid(a) /\ Valid(b)) =>
        /\ ret.op = "add_log_prob" =>
              /\ ret.ok <=> SumNum <= SumDen
              /\ ret.ok => IsLnOf(ret.val, SumNum, SumDen) /\ Valid(ret.val)
              /\ ~ret.ok => ret.err = "ProbabilitiesSumToGreaterThanOne"
        /\ (ret.op = "add_log_prob_clamped" /\ SumNum > SumDen) => ret.val = ZERO
        /\ (ret.op = "add_log_prob_float" /\ SumNum > SumDen) =>
              /\ IsLnOf(ret.val, SumNum, SumDen)
              /\ ~Valid(ret.val)

C4_Witness ==
    /\ a = Ln(1, 2) /\ b = Ln(3, 4)
    /\ ret.op = "add_log_prob_float" /\ ret.val = Ln(5, 4)
    /\ prev.op = "add_log_prob" /\ ~prev.ok

\* C11: Ord::cmp on two values obtained through the public API returns an
\* ordering without panicking (Equal exactly when the values are equal, and
\* Less exactly when a < b), and the slice reducer, which finds its maximum
\* with Ord::cmp, does not panic on a slice of two such values.
C11_ComparisonNeverPanics ==
    /\ ret.op = "cmp" =>
          /\ ret.err # "panic"
          /\ ret.cnt = 0 <=> FEq(a, b)
          /\ ret.cnt = -1 <=> FLt(a, b)
          /\ ret.cnt = 1 <=> FGt(a, b)
    /\ ret.op = "log_sum_exp_of_pair" => ret.err # "panic"

\* C14: for valid x and y, either or both possibly negative infinity,
\* add_log_prob_internal calls exp only on an argument <= 0 and does not
\* return NaN; with negative infinity as one operand it returns the other
\* operand, and its result is never less than x or y.
C14_KernelWellDefined ==
    (Valid(a) /\ Valid(b) /\ ret.op = "add_log_prob_float") =>
        /\ ret.cnt = 1 => (FLt(ret.arg, ZERO) \/ FEq(ret.arg, ZERO))
        /\ ~is_nan(ret.val)
        /\ b = NEG_INFINITY => FEq(ret.val, a)
        /\ a = NEG_INFINITY => FEq(ret.val, b)
        /\ ~FLt(ret.val, a) /\ ~FLt(ret.val, b)

C14_Witness ==
    /\ a = NEG_INFINITY /\ b = Ln(1, 2)
    /\ ret.op = "add_log_prob_float" /\ ret.val = Ln(1, 2)
    /\ ret.cnt = 1 /\ ret.arg = NEG_INFINITY

\* C15: for valid a and b, a.add_log_prob(b) and b.add_log_prob(a) are both
\* Err or both Ok with the identical value, and the clamped and the float
\* variants return the identical value for either order of the operands.
C15_PairwiseCommutative ==
    (Valid(a) /\ Valid(b)) =>
        /\ (ret.op = "add_log_prob_exchanged" /\ prev.op = "add_log_prob") =>
              /\ ret.ok = prev.ok
              /\ ret.err = prev.err
              /\ ret.ok => ret.val = prev.val
        /\ (/\ ret.op = "add_log_prob_clamped_exchanged"
            /\ prev.op = "add_log_prob_clamped") => ret.val = prev.val
        /\ (/\ ret.op = "add_log_prob_float_exchanged"
            /\ prev.op = "add_log_prob_float") => ret.val = prev.val

C15_Witness ==
    /\ a = Ln(1, 4) /\ b = Ln(1, 2)
    /\ ret.op = "add_log_prob_exchanged" /\ ret.ok /\ ret.val = Ln(3, 4)
    /\ prev.op = "add_log_prob" /\ prev.ok /\ prev.val = Ln(3, 4)

AddOps == {"add", "add_val_ref", "add_ref_val", "add_ref_ref"}
AddAssignOps == {"add_assign", "add_assign_ref"}

\* x is the log of the product of the probabilities of y and z, and negative
\* infinity when y or z is.
IsLogProduct(x, y, z) ==
    /\ ~is_nan(x)
    /\ Prob(x)[1] * Prob(y)[2] * Prob(z)[2] = Prob(y)[1] * Prob(z)[1] * Prob(x)[2]
    /\ (y = NEG_INFINITY \/ z = NEG_INFINITY) => x = NEG_INFINITY

\* What a + b returned, and what a += b left in a (ret.arg is the old a).
SumOfLogs ==
    /\ (ret.op \in AddOps /\ Valid(a) /\ Valid(b)) =>
          Valid(ret.val) /\ IsLogProduct(ret.val, a, b)
    /\ (ret.op \in AddAssignOps /\ Valid(ret.arg) /\ Valid(b)) =>
          Valid(a) /\ IsLogProduct(a, ret.arg, b)

\* What a step that is a + b, or a += b, changes.
AddFrame ==
    /\ (ret'.op \in AddOps /\ ret' # ret) => (a' = a /\ b' = b)
    /\ (ret'.op \in AddAssignOps /\ (ret' # ret \/ a' # a)) =>
          (b' = b /\ ret'.arg = a /\ ret'.val = a')

\* C17: for valid a and b, a + b in each of the four value / reference
\* combinations returns a LogProb that holds the sum of the two log values
\* (negative infinity when either is) and changes neither a nor b; a += b
\* changes a only and leaves in it a valid log-probability, the old a plus b.
C17_AddAndAddAssign == [](SumOfLogs) /\ [][AddFrame]_vars

C17_Witness ==
    /\ a = Ln(1, 4) /\ b = Ln(1, 2)
    /\ ret.op = "add_assign_ref" /\ ret.arg = Ln(1, 2) /\ ret.val = Ln(1, 4)

\* ------------------------------------------------------------ calls on sequences
\* The valid log-probabilities a sequence is made of.
Elems == {NEG_INFINITY, Ln(1, 4), Ln(1, 2), Ln(3, 4), ZERO}

\* The caller adds an item to the slice or iterator it will reduce.
Push(v) ==
    /\ Len(seq) < MaxLen
    /\ seq' = Append(seq, v)
    /\ ret' = NoCall
    /\ prev' = NoCall
    /\ UNCHANGED <<a, b, inp, sm>>

\* Each reducer is called on seq; cnt records the number of items it pulled.
SliceLogSumExp ==
    /\ ret' = Call("log_sum_exp", NaN, Len(seq), log_sum_exp(seq), TRUE)
    /\ prev' = ret
    /\ UNCHANGED <<a, b, seq, inp, sm>>

SliceLogSumExpClamped ==
    /\ ret' = Call("log_sum_exp_clamped", NaN, Len(seq), log_sum_exp_clamped(seq), TRUE)
    /\ prev' = ret
    /\ UNCHANGED <<a, b, seq, inp, sm>>

SliceLogSumExpFloat ==
    /\ ret' = Call("log_sum_exp_float", NaN, Len(seq), log_sum_exp_float(seq), FALSE)
    /\ prev' = ret
    /\ UNCHANGED <<a, b, seq, inp, sm>>

IterLogSumExp ==
    /\ ret' = Call("it_log_sum_exp", NaN, Len(seq), it_log_sum_exp(seq), TRUE)
    /\ prev' = ret
    /\ UNCHANGED <<a, b, seq, inp, sm>>

IterLogSumExpClamped ==
    /\ ret' = Call("it_log_sum_exp_clamped", NaN, Len(seq), Ok(it_log_sum_exp_clamped(seq)), TRUE)
    /\ prev' = ret
    /\ UNCHANGED <<a, b, seq, inp, sm>>

IterLogSumExpFloat ==
    /\ ret' = Call("it_log_sum_exp_float", NaN, Len(seq), Ok(it_log_sum_exp_float(seq)), FALSE)
    /\ prev' = ret
    /\ UNCHANGED <<a, b, seq, inp, sm>>

LogSumExpNoAlloc ==
    /\ ret' = Call("log_sum_exp_no_alloc", NaN, log_sum_exp_no_alloc(seq).pulled, log_sum_exp_no_alloc(seq).r, TRUE)
    /\ prev' = ret
    /\ UNCHANGED <<a, b, seq, inp, sm>>

LogSumExpClampedNoAlloc ==
    /\ ret' = Call("log_sum_exp_clamped_no_alloc", NaN, log_sum_exp_clamped_no_alloc(seq).pulled, log_sum_exp_clamped_no_alloc(seq).r, TRUE)
    /\ prev' = ret
    /\ UNCHANGED <<a, b, seq, inp, sm>>

LogSumExpFloatNoAlloc ==
    /\ ret' = Call("log_sum_exp_float_no_alloc", NaN, Len(seq), Ok(log_sum_exp_float_no_alloc(seq)), FALSE)
    /\ prev' = ret
    /\ UNCHANGED <<a, b, seq, inp, sm>>

NextReduce ==
    \/ \E v \in Elems : Push(v)
    \/ SliceLogSumExp
    \/ SliceLogSumExpClamped
    \/ SliceLogSumExpFloat
    \/ IterLogSumExp
    \/ IterLogSumExpClamped
    \/ IterLogSumExpFloat
    \/ LogSumExpNoAlloc
    \/ LogSumExpClampedNoAlloc
    \/ LogSumExpFloatNoAlloc

SpecReduce == Init /\ [][NextReduce]_vars

\* ------------------------------------------------------------ properties of reductions
\* The sum of the probabilities of the first i items, as a fraction.
RECURSIVE SumProb(_, _)
SumProb(items, i) ==
    IF i = 0 THEN <<0, 1>>
    ELSE LET r == SumProb(items, i - 1)
             p == Prob(items[i])
         IN  <<r[1] * p[2] + p[1] * r[2], r[2] * p[2]>>

Total == SumProb(seq, Len(seq))

StrictReducers == {"log_sum_exp", "it_log_sum_exp", "log_sum_exp_no_alloc"}
ClampedReducers ==
    {"log_sum_exp_clamped", "it_log_sum_exp_clamped", "log_sum_exp_clamped_no_alloc"}
FloatReducers == {"log_sum_exp_float", "it_log_sum_exp_float", "log_sum_exp_float_no_alloc"}
Reducers == StrictReducers \cup ClampedReducers \cup FloatReducers

\* C5: each of the nine reducers returns negative infinity for an empty
\* input, the strict ones as Ok; none returns zero or an error.
C5_EmptyIsNegInfinity ==
    (seq = <<>> /\ ret.op \in Reducers) => (ret.ok /\ ret.val = NEG_INFINITY)

C5_Witness ==
    /\ seq = <<>>
    /\ ret.op = "log_sum_exp_no_alloc" /\ ret.ok /\ ret.val = NEG_INFINITY
    /\ prev.op = "it_log_sum_exp" /\ prev.ok /\ prev.val = NEG_INFINITY

\* Two returned values are the same float.
SameValue(x, y) == FEq(x, y)

\* C6: on every sequence of valid log-probabilities the streaming strict
\* reducer and the buffered strict reducers (slice and iterator) both return
\* Err or both return Ok with the same value, and the streaming and buffered
\* float reducers return the same value.
C6_CrossStrategyAgreement ==
    /\ (ret.op = "log_sum_exp_no_alloc" /\ prev.op \in {"log_sum_exp", "it_log_sum_exp"}) =>
          /\ ret.ok = prev.ok
          /\ ret.ok => SameValue(ret.val, prev.val)
    /\ (/\ ret.op = "log_sum_exp_float_no_alloc"
        /\ prev.op \in {"log_sum_exp_float", "it_log_sum_exp_float"}) =>
          SameValue(ret.val, prev.val)

\* C7: on a non-empty sequence of valid log-probabilities the buffered strict
\* reducers return Err(ProbabilitiesSumToGreaterThanOne) if and only if the
\* probabilities sum to more than 1, and otherwise Ok(ln of the sum).
C7_StrictBufferedErrOnlyOnOverflow ==
    (Len(seq) > 0 /\ ret.op \in {"log_sum_exp", "it_log_sum_exp"}) =>
        /\ ~ret.ok <=> Total[1] > Total[2]
        /\ ~ret.ok => ret.err = "ProbabilitiesSumToGreaterThanOne"
        /\ ret.ok => IsLnOf(ret.val, Total[1], Total[2])

\* The strict form a clamped form corresponds to.
StrictOf(op) ==
    CASE op = "add_log_prob_clamped" -> "add_log_prob"
      [] op = "log_sum_exp_clamped" -> "log_sum_exp"
      [] op = "it_log_sum_exp_clamped" -> "it_log_sum_exp"
      [] op = "log_sum_exp_clamped_no_alloc" -> "log_sum_exp_no_alloc"
      [] OTHER -> "none"

\* C8: a clamped form returns the value of its strict form when that is Ok
\* and 0 when that is Err, and a clamped reducer returns 0 only when the
\* probabilities sum to at least 1.
C8_ClampedMirrorsStrict ==
    /\ (StrictOf(ret.op) # "none" /\ prev.op = StrictOf(ret.op)) =>
          /\ prev.ok => ret.val = prev.val
          /\ ~prev.ok => ret.val = ZERO
    /\ (ret.op \in ClampedReducers /\ is_zero(ret.val)) => Total[1] >= Total[2]

\* C12: log_sum_exp_float_no_alloc consumes every item and returns, without
\* error, the ln of the sum of all the probabilities; that value is strictly
\* positive exactly when log_sum_exp_no_alloc on the same sequence returns
\* Err, and when the strict form returns Ok(v) the float form returns v.
C12_FloatStreamingConsistent ==
    ret.op = "log_sum_exp_float_no_alloc" =>
        /\ ret.ok
        /\ ret.cnt = Len(seq)
        /\ IsLnOf(ret.val, Total[1], Total[2])
        /\ prev.op = "log_sum_exp_no_alloc" =>
              /\ FGt(ret.val, ZERO) <=> ~prev.ok
              /\ prev.ok => ret.val = prev.val

C12_Witness ==
    /\ seq = <<Ln(3, 4), Ln(1, 2), Ln(1, 4)>>
    /\ ret.op = "log_sum_exp_float_no_alloc" /\ ret.val = Ln(3, 2)
    /\ prev.op = "log_sum_exp_no_alloc" /\ ~prev.ok /\ prev.cnt = 2

\* The prefixes of seq whose probabilities sum to more than 1.
Overflows == {k \in 1..Len(seq) : SumProb(seq, k)[1] > SumProb(seq, k)[2]}

\* C13: log_sum_exp_no_alloc and log_sum_exp_clamped_no_alloc pull the items
\* one at a time and stop at the first item whose addition to the accumulator
\* exceeds probability 1: they have then pulled exactly the shortest
\* overflowing prefix and return Err (strict) or 0 (clamped); without an
\* overflow they pull every item and return the ln of the sum.  The clamped
\* form so returns the clamp of the sum of the whole sequence.
C13_StreamingShortCircuit ==
    ret.op \in {"log_sum_exp_no_alloc", "log_sum_exp_clamped_no_alloc"} =>
        /\ Overflows = {} =>
              /\ ret.cnt = Len(seq)
              /\ ret.ok /\ IsLnOf(ret.val, Total[1], Total[2])
        /\ Overflows # {} =>
              /\ \A k \in Overflows : ret.cnt <= k
              /\ ret.cnt \in Overflows
              /\ ret.op = "log_sum_exp_no_alloc" =>
                    ~ret.ok /\ ret.err = "ProbabilitiesSumToGreaterThanOne"
              /\ ret.op = "log_sum_exp_clamped_no_alloc" => ret.ok /\ ret.val = ZERO
        /\ ret.op = "log_sum_exp_clamped_no_alloc" =>
              IF Total[1] > Total[2] THEN ret.val = ZERO
              ELSE IsLnOf(ret.val, Total[1], Total[2])

C13_Witness ==
    /\ seq = <<Ln(3, 4), Ln(1, 2), Ln(1, 4)>>
    /\ ret.op = "log_sum_exp_clamped_no_alloc" /\ ret.cnt = 2 /\ ret.val = ZERO
    /\ prev.op = "log_sum_exp_no_alloc" /\ prev.cnt = 2 /\ ~prev.ok

\* ------------------------------------------------------------ calls of softmax
\* Floats handed to softmax (logits).
Logits == {NaN, INFINITY, NEG_INFINITY, ZERO, Ln(1, 2), Ln(2, 1), Ln(3, 1)}

\* The caller adds a float to the slice it will hand to softmax.
Feed(x) ==
    /\ sm.st = "idle"
    /\ Len(inp) < MaxLen
    /\ inp' = Append(inp, x)
    /\ UNCHANGED <<a, b, ret, prev, seq, sm>>

\* softmax(&inp)
Softmax ==
    /\ sm.st = "idle"
    /\ sm' = softmax(inp)
    /\ UNCHANGED <<a, b, ret, prev, seq, inp>>

\* .next() on the iterator softmax returned
SoftmaxNextItem ==
    /\ sm.st = "iter"
    /\ LET r == softmax_item(inp[sm.pos + 1], sm.s, sm.max)
       IN  sm' = IF ~r.ok THEN [sm EXCEPT !.st = "panic", !.pos = sm.pos + 1]
                 ELSE [sm EXCEPT !.pos = sm.pos + 1,
                                 !.out = Append(sm.out, r.val),
                                 !.st = IF sm.pos + 1 = Len(inp) THEN "done" ELSE "iter"]
    /\ UNCHANGED <<a, b, ret, prev, seq, inp>>

NextSoftmax ==
    \/ \E x \in Logits : Feed(x)
    \/ Softmax
    \/ SoftmaxNextItem

SpecSoftmax == Init /\ [][NextSoftmax]_vars

\* ------------------------------------------------------------ properties of softmax
\* C9: softmax returns Err exactly when some element, at any position, is
\* NaN or positive infinity (negative infinity and every finite value pass),
\* and it does so before the maximum and the sum are computed and before any
\* item is produced.
C9_SoftmaxValidatesEagerly ==
    /\ sm.st # "idle" =>
          (sm.st = "err" <=>
              \E i \in 1..Len(inp) : is_nan(inp[i]) \/ inp[i] = INFINITY)
    /\ sm.st = "err" => (~sm.maxDone /\ ~sm.sumDone /\ sm.pos = 0 /\ sm.out = <<>>)
    /\ sm.pos > 0 => sm.visited = Len(inp)

C9_Witness ==
    /\ sm.st = "err"
    /\ Len(inp) = 3
    /\ inp[1] = NEG_INFINITY /\ inp[2] = Ln(2, 1) /\ inp[3] = INFINITY

\* C10: once softmax has returned an iterator, taking items from it never
\* panics, every item is a valid log-probability, and the item of an element
\* equal to negative infinity is negative infinity.
C10_SoftmaxNeverFailsAfterValidation ==
    /\ sm.st # "panic"
    /\ \A i \in 1..Len(sm.out) :
          /\ Valid(sm.out[i])
          /\ inp[i] = NEG_INFINITY => sm.out[i] = NEG_INFINITY

\* The sum of exp over the input of softmax and over the items it gave.
ExpIn == SumProb(inp, Len(inp))
ExpOut == SumProb(sm.out, Len(sm.out))

\* C16: for an input that passes validation softmax returns an iterator that
\* gives one item per element, in order, without panicking; item i is
\* x_i - s - m, that is ln(exp(x_i) / sum_j exp(x_j)), with m the maximum of
\* the input (zero for the empty input, whose iterator is empty), and for a
\* finite non-empty input the exp of the items sum to 1.
C16_SoftmaxOutputShape ==
    sm.st \notin {"idle", "err"} =>
        /\ sm.st # "panic"
        /\ Len(sm.out) = sm.pos
        /\ sm.st = "done" <=> sm.pos = Len(inp)
        /\ inp = <<>> => sm.max = ZERO
        /\ \A i \in 1..Len(inp) : ~FLt(sm.max, inp[i])
        /\ inp # <<>> => \E i \in 1..Len(inp) : sm.max = inp[i]
        /\ \A i \in 1..Len(sm.out) :
              /\ sm.out[i] = FSub(FSub(inp[i], sm.s), sm.max)
              /\ IsLnOf(sm.out[i], Prob(inp[i])[1] * ExpIn[2], Prob(inp[i])[2] * ExpIn[1])
        /\ (/\ sm.st = "done" /\ inp # <<>>
            /\ \A i \in 1..Len(inp) : ~is_infinite(inp[i])) => ExpOut[1] = ExpOut[2]

=============================================================================
